---------------------------- MODULE Spec2Model ----------------------------
(***************************************************************************)
(* ColumbiaCals backend: meal-period resolution, rating submission, the   *)
(* legacy hall normalizer and the refresh orchestrator                    *)
(* (ColumbiaCals-Backend/server.py, ColumbiaCals-Backend/run_all_scrapers.py). *)
(*                                                                         *)
(* Python strings that the code transforms (strip, lower, replace, split,  *)
(* int) are sequences of one-character strings.  The en dash and the em     *)
(* dash are the characters "en" and "em".  Python's None for an optional    *)
(* value is the empty tuple and a present value v is <<v>>.                 *)
(***************************************************************************)
EXTENDS Integers, Sequences, FiniteSets, TLC

VARIABLES
    \* ---- rating service (server.py, rating endpoints) ----
    menuFile,       \* MENU_FILE (menu_with_nutrition.json): None when absent, else Some(document)
    nowMin,         \* minute of day in America/New_York
    today,          \* get_current_date()
    defaultPeriod,  \* get_current_meal_period() as a function of the minute of day
    ratings,        \* rows of the ratings table
    lastReq,        \* the request answered last at the current instant, with its response
    posts,          \* number of accepted POST /api/ratings requests
    \* ---- meal-period resolver on its own (server.py, _get_hall_current_period) ----
    resHall,        \* the hall document handed to the resolver
    resMinute,      \* the current minute of day
    resDefault,     \* what get_current_meal_period() returns at that minute
    resOut,         \* None before the call, Some(period) after it
    \* ---- helper functions of server.py called on their own ----
    callIn,         \* the function called and its arguments
    callOut,        \* None before the call, Some(result) after it
    \* ---- refresh orchestrator (server.py, run_all_scrapers.py) ----
    autoRefresh,    \* AUTO_REFRESH_ON_START resolved to a boolean
    pc,             \* position of each thread: thread 0 is the scheduler thread, the
                    \* others are the threads trigger_refresh_async starts
    jobScheduled,   \* the daily 03:00 job is registered with the schedule module
    refreshFlag,    \* _refresh_in_progress
    result1,        \* per thread, the local result1 of update_menus: the finished scraper run
    menuData,       \* content of menu_data.json
    days,           \* number of 03:00 instants the scheduler loop has seen
    \* ---- legacy normalizer (server.py, _normalize_legacy_hall) ----
    normIn,         \* the hall document handed to the normalizer
    normOut,        \* None, or Some(_normalize_legacy_hall(normIn))
    normTwice,      \* None, or Some(_normalize_legacy_hall(normOut))
    normClock       \* datetime.now()

ratingVars == <<menuFile, nowMin, today, defaultPeriod, ratings, lastReq, posts>>
refreshVars == <<autoRefresh, pc, jobScheduled, refreshFlag, result1, menuData, days>>
normVars == <<normIn, normOut, normTwice, normClock>>
resolverVars == <<resHall, resMinute, resDefault, resOut, callIn, callOut>>
vars == <<ratingVars, resolverVars, refreshVars, normVars>>

-----------------------------------------------------------------------------
(* Bounds of the model *)

MaxPosts == 2       \* accepted POST /api/ratings requests in one behaviour
MaxDay == 2         \* calendar dates the clock runs through
MaxBlocks == 2      \* meal blocks of a hall handed to the resolver
MaxWorkers == 2     \* threads started by trigger_refresh_async that are alive at once
MaxDays == 1        \* 03:00 instants the scheduler loop sees

-----------------------------------------------------------------------------
(* Python values *)

None == <<>>
Some(v) == <<v>>

\* no helper function is called
NoCall == [fn |-> "none"]

-----------------------------------------------------------------------------
(* Python str operations on sequences of characters *)

UpperChars == <<"A","B","C","D","E","F","G","H","I","J","K","L","M",
                "N","O","P","Q","R","S","T","U","V","W","X","Y","Z">>
LowerChars == <<"a","b","c","d","e","f","g","h","i","j","k","l","m",
                "n","o","p","q","r","s","t","u","v","w","x","y","z">>
DigitChars == <<"0","1","2","3","4","5","6","7","8","9">>
Whitespace == {" "}

UpperSet == {UpperChars[i] : i \in 1..26}
LowerSet == {LowerChars[i] : i \in 1..26}
DigitSet == {DigitChars[i] : i \in 1..10}
ToLower == [c \in UpperSet |-> LowerChars[CHOOSE i \in 1..26 : UpperChars[i] = c]]
ToUpper == [c \in LowerSet |-> UpperChars[CHOOSE i \in 1..26 : LowerChars[i] = c]]
DigitOf == [c \in DigitSet |-> (CHOOSE i \in 1..10 : DigitChars[i] = c) - 1]

LowerChar(c) == IF c \in UpperSet THEN ToLower[c] ELSE c
UpperChar(c) == IF c \in LowerSet THEN ToUpper[c] ELSE c

\* str.lower(), str.upper()
Lower(s) == [i \in 1..Len(s) |-> LowerChar(s[i])]
Upper(s) == [i \in 1..Len(s) |-> UpperChar(s[i])]

\* str.title(): a letter that follows a non-letter is upper-cased, any other letter lower-cased
IsLetter(c) == c \in UpperSet \/ c \in LowerSet
Title(s) == [i \in 1..Len(s) |->
               IF i = 1 \/ ~IsLetter(s[i-1]) THEN UpperChar(s[i]) ELSE LowerChar(s[i])]

\* str.strip()
RECURSIVE LStrip(_)
LStrip(s) == IF s # <<>> /\ Head(s) \in Whitespace THEN LStrip(Tail(s)) ELSE s
RECURSIVE RStrip(_)
RStrip(s) == IF s # <<>> /\ s[Len(s)] \in Whitespace
             THEN RStrip(SubSeq(s, 1, Len(s) - 1)) ELSE s
Strip(s) == RStrip(LStrip(s))

\* str.startswith(p)
StartsWith(s, p) == Len(s) >= Len(p) /\ SubSeq(s, 1, Len(p)) = p

\* str.find(sub) + 1 for a non-empty sub: the first position where sub occurs in s, 0
\* when it does not
Find(s, sub) ==
    LET last == Len(s) - Len(sub) + 1
        hit(i) == s[i] = sub[1] /\ SubSeq(s, i, i + Len(sub) - 1) = sub
    IN  IF \E i \in 1..last : hit(i)
        THEN CHOOSE i \in 1..last : hit(i) /\ \A j \in 1..(i - 1) : ~hit(j)
        ELSE 0

\* sub in s
Contains(s, sub) == Find(s, sub) # 0

\* str.replace(old, new), old non-empty: non-overlapping occurrences, left to right
RECURSIVE Replace(_, _, _)
Replace(s, old, new) ==
    LET i == Find(s, old)
    IN  IF i = 0 THEN s
        ELSE SubSeq(s, 1, i - 1) \o new \o Replace(SubSeq(s, i + Len(old), Len(s)), old, new)

\* str.split(sep, 1) for a string that contains sep: the parts before and after the first sep
SplitOnce(s, sep) ==
    LET i == Find(s, sep)
    IN  <<SubSeq(s, 1, i - 1), SubSeq(s, i + Len(sep), Len(s))>>

\* str.split(): the maximal runs of non-whitespace characters
RECURSIVE SplitWords(_)
SplitWords(s) ==
    LET t == LStrip(s)
        ends == {i \in 1..Len(t) : t[i] \in Whitespace}
        stop == IF ends = {} THEN Len(t) + 1 ELSE CHOOSE i \in ends : \A j \in ends : i <= j
    IN  IF t = <<>> THEN <<>>
        ELSE <<SubSeq(t, 1, stop - 1)>> \o SplitWords(SubSeq(t, stop, Len(t)))

\* int(s) for a string without whitespace: an optional sign and at least one decimal digit;
\* None stands for ValueError
RECURSIVE DigitsValue(_)
DigitsValue(s) == IF s = <<>> THEN 0
                  ELSE 10 * DigitsValue(SubSeq(s, 1, Len(s) - 1)) + DigitOf[s[Len(s)]]
ParseInt(s) ==
    LET signed == s # <<>> /\ Head(s) \in {"+", "-"}
        body == IF signed THEN Tail(s) ELSE s
    IN  IF body = <<>> \/ \E i \in 1..Len(body) : body[i] \notin DigitSet THEN None
        ELSE IF signed /\ Head(s) = "-" THEN Some(0 - DigitsValue(body))
        ELSE Some(DigitsValue(body))

-----------------------------------------------------------------------------
(* Time parser and meal-period resolver, server.py *)

late == <<"l","a","t","e">>
late_night == <<"l","a","t","e","_","n","i","g","h","t">>
all_day == <<"a","l","l","_","d","a","y">>
unknown == <<"u","n","k","n","o","w","n">>
breakfast == <<"b","r","e","a","k","f","a","s","t">>
lunch == <<"l","u","n","c","h">>
dinner == <<"d","i","n","n","e","r">>

\* _normalize_meal_type without the call of lower()
_normalize_meal_type_no_lower(meal_type) ==
    IF meal_type = None \/ meal_type = Some(<<>>) THEN <<"u","n","k","n","o","w","n">>
    ELSE LET value == Replace(Strip(meal_type[1]), <<" ">>, <<"_">>)
         IN  IF StartsWith(value, <<"l","a","t","e">>) THEN <<"l","a","t","e","_","n","i","g","h","t">>
             ELSE value

\* meal_type is None (absent) or Some(string)
_normalize_meal_type(meal_type) ==
    IF meal_type = None \/ meal_type = Some(<<>>) THEN unknown
    ELSE LET value == Replace(Lower(Strip(meal_type[1])), <<" ">>, <<"_">>)
         IN  IF StartsWith(value, late) THEN late_night
             ELSE IF value = all_day THEN all_day
             ELSE value

_parse_time_to_minutes(time_str) ==
    IF time_str = <<>> THEN None
    ELSE LET parts == SplitWords(Strip(time_str))
         IN  IF Len(parts) # 2 THEN None
             ELSE LET time_part == parts[1]
                      ampm == parts[2]
                  IN  IF ~Contains(time_part, <<":">>) THEN None
                      ELSE LET hm == SplitOnce(time_part, <<":">>)
                               hour == ParseInt(hm[1])
                               minute == ParseInt(hm[2])
                               is_pm == Upper(ampm) = <<"P","M">>
                           IN  IF hour = None \/ minute = None THEN None
                               ELSE LET h == IF is_pm /\ hour[1] # 12 THEN hour[1] + 12
                                             ELSE IF ~is_pm /\ hour[1] = 12 THEN 0
                                             ELSE hour[1]
                                    IN  Some(h * 60 + minute[1])

\* None, or Some(<<start, end>>)
_parse_time_range(range_str) ==
    IF range_str = <<>> THEN None
    ELSE LET normalized == Replace(Replace(Replace(range_str,
                                <<" ","t","o"," ">>, <<" ","-"," ">>),
                                <<"en">>, <<"-">>), <<"em">>, <<"-">>)
         IN  IF ~Contains(normalized, <<" ","-"," ">>) THEN None
             ELSE LET halves == SplitOnce(normalized, <<" ","-"," ">>)
                      start == _parse_time_to_minutes(Strip(halves[1]))
                      end == _parse_time_to_minutes(Strip(halves[2]))
                  IN  IF start = None \/ end = None THEN None
                      ELSE Some(<<start[1], end[1]>>)

\* _is_time_in_range with the end minute inside the range
_is_time_in_range_closed(current_minutes, start_minutes, end_minutes) ==
    IF end_minutes < start_minutes
    THEN current_minutes >= start_minutes \/ current_minutes <= end_minutes
    ELSE start_minutes <= current_minutes /\ current_minutes <= end_minutes

_is_time_in_range(current_minutes, start_minutes, end_minutes) ==
    IF end_minutes < start_minutes
    THEN current_minutes >= start_minutes \/ current_minutes < end_minutes
    ELSE start_minutes <= current_minutes /\ current_minutes < end_minutes

\* dict.get(key) and dict.get(key, default) on a function whose domain is the keys present
Get(d, key) == IF key \in DOMAIN d THEN Some(d[key]) ELSE None
GetOr(d, key, default) == IF key \in DOMAIN d THEN d[key] ELSE default

\* the for loop of _get_hall_current_period from block i on: Some(period) when a block
\* returns, None when the loop runs to its end
RECURSIVE ScanMeals(_, _, _)
ScanMeals(meals, i, current_minutes) ==
    IF i > Len(meals) THEN None
    ELSE LET time_range == _parse_time_range(GetOr(meals[i], "time", <<>>))
         IN  IF time_range # None
                /\ _is_time_in_range(current_minutes, time_range[1][1], time_range[1][2])
             THEN Some(_normalize_meal_type(Get(meals[i], "meal_type")))
             ELSE ScanMeals(meals, i + 1, current_minutes)

\* _get_hall_current_period with the fallback taken from the last block instead of the first
_get_hall_current_period_last_block(hall, current_minutes, default_period) ==
    LET meals == GetOr(hall, "meals", <<>>)
        hit == ScanMeals(meals, 1, current_minutes)
    IN  IF meals = <<>> THEN default_period
        ELSE IF hit # None THEN hit[1]
        ELSE _normalize_meal_type(Get(meals[Len(meals)], "meal_type"))

\* current_minutes is datetime.now(NY_TZ) as a minute of day, default_period the value
\* get_current_meal_period() returns at that instant
_get_hall_current_period(hall, current_minutes, default_period) ==
    LET meals == GetOr(hall, "meals", <<>>)
        hit == ScanMeals(meals, 1, current_minutes)
    IN  IF meals = <<>> THEN default_period
        ELSE IF hit # None THEN hit[1]
        ELSE _normalize_meal_type(Get(meals[1], "meal_type"))

columbia == <<"c","o","l","u","m","b","i","a">>
barnard == <<"b","a","r","n","a","r","d">>
cornell == <<"c","o","r","n","e","l","l">>

\* (item.get('source') or item.get('university') or '').lower()
SourceTag(item) ==
    Lower(IF GetOr(item, "source", <<>>) # <<>> THEN item["source"]
          ELSE GetOr(item, "university", <<>>))

\* the nested function matches of _find_hall_entry; university is None or Some(string)
HallMatches(hall, hall_name, university) ==
    IF Get(hall, "name") # Some(hall_name) THEN FALSE
    ELSE IF university = None \/ university = Some(<<>>) THEN TRUE
    ELSE LET uni == Lower(university[1])
             source == SourceTag(hall)
         IN  IF uni = columbia THEN source \in {columbia, barnard}
             ELSE source = uni

\* the document of MENU_FILE, the empty list when it cannot be read
_load_menu_data(file) == IF file = None THEN <<>> ELSE file[1]

\* data is the menu document (_load_menu_data()); None when no hall matches
_find_hall_entry(data, hall_name, university) ==
    LET hits == {i \in 1..Len(data) : HallMatches(data[i], hall_name, university)}
    IN  IF hall_name = "" \/ hits = {} THEN None
        ELSE Some(data[CHOOSE i \in hits : \A j \in hits : i <= j])

_get_hall_period_for_request(data, hall_name, university, current_minutes, default_period) ==
    LET hall == _find_hall_entry(data, hall_name, university)
    IN  IF hall # None THEN _get_hall_current_period(hall[1], current_minutes, default_period)
        ELSE default_period

-----------------------------------------------------------------------------
(* Rating endpoints, server.py.  A rating is a number of hundredths. *)

\* float(x) of a JSON value: a number is [num |-> hundredths], a string is [str |-> chars],
\* null is [null |-> TRUE]; None stands for ValueError or TypeError.  A string converts
\* when it is an optional sign, digits, and optionally a point and one or two digits.
ParseFloat(s) ==
    LET signed == s # <<>> /\ Head(s) \in {"+", "-"}
        body == IF signed THEN Tail(s) ELSE s
        dot == Find(body, <<".">>)
        whole == IF dot = 0 THEN body ELSE SubSeq(body, 1, dot - 1)
        frac == IF dot = 0 THEN <<>> ELSE SubSeq(body, dot + 1, Len(body))
        digitsOnly(t) == \A i \in 1..Len(t) : t[i] \in DigitSet
        hundredths == 100 * DigitsValue(whole)
                      + (IF Len(frac) = 1 THEN 10 * DigitsValue(frac) ELSE DigitsValue(frac))
    IN  IF ~digitsOnly(whole) \/ ~digitsOnly(frac) \/ Len(frac) > 2
           \/ (whole = <<>> /\ frac = <<>>)
        THEN None
        ELSE IF signed /\ Head(s) = "-" THEN Some(0 - hundredths) ELSE Some(hundredths)

Float(x) ==
    IF "num" \in DOMAIN x THEN Some(x.num)
    ELSE IF "str" \in DOMAIN x THEN ParseFloat(Strip(x.str))
    ELSE None

\* round(rating, 1) for 0 <= rating <= 10: the nearest tenth; a value that ends in 5
\* hundredths has no exact binary float, so either neighbouring tenth can result
Round1(rating) ==
    IF rating % 10 = 5 THEN {rating - 5, rating + 5}
    ELSE IF rating % 10 < 5 THEN {rating - (rating % 10)}
    ELSE {rating + (10 - (rating % 10))}

\* database.submit_rating: upsert of the row with this key
RatingKey(row) == <<row.device_id, row.hall_name, row.university, row.meal_period, row.date>>
submit_rating(table, row) == {r \in table : RatingKey(r) # RatingKey(row)} \cup {row}

\* database.get_user_rating: point lookup, None when the device has not rated
get_user_rating(table, device_id, hall_name, university, meal_period, date) ==
    LET hits == {r \in table : RatingKey(r) = <<device_id, hall_name, university, meal_period, date>>}
    IN  IF hits = {} THEN None ELSE Some((CHOOSE r \in hits : TRUE).rating)

\* the university of the stored row without the call of lower()
RowUniversityRaw(university) == university

\* the university of the stored row: data['university'].lower()
RowUniversity(university) == Lower(university)

\* the meal period the user lookup asks for: get_current_meal_period()
UserLookupPeriod(data, hall_name, university, current_minutes, default_period) ==
    default_period

RequiredFields == {"device_id", "hall_name", "university", "rating"}

\* post_rating with the range check 0 <= rating only
PostRatingErrorNoUpper(data) ==
    IF ~(RequiredFields \subseteq DOMAIN data)
    THEN Some([code |-> 400, error |-> "Missing required fields"])
    ELSE IF Float(data.rating) = None
    THEN Some([code |-> 400, error |-> "Rating must be a number"])
    ELSE IF ~(0 <= Float(data.rating)[1])
    THEN Some([code |-> 400, error |-> "Rating must be between 0 and 10"])
    ELSE None

\* post_rating up to the rounding: the error response, or None when the request is valid
PostRatingError(data) ==
    IF ~(RequiredFields \subseteq DOMAIN data)
    THEN Some([code |-> 400, error |-> "Missing required fields"])
    ELSE IF Float(data.rating) = None
    THEN Some([code |-> 400, error |-> "Rating must be a number"])
    ELSE IF ~(0 <= Float(data.rating)[1] /\ Float(data.rating)[1] <= 1000)
    THEN Some([code |-> 400, error |-> "Rating must be between 0 and 10"])
    ELSE None

NoRequest == [endpoint |-> "none"]

\* POST /api/ratings
post_rating(data) ==
    /\ IF PostRatingError(data) # None
       THEN /\ lastReq' = [endpoint |-> "post_rating", code |-> 400, request |-> data,
                            error |-> PostRatingError(data)[1].error]
            /\ ratings' = ratings
            /\ posts' = posts
       ELSE \E rating \in Round1(Float(data.rating)[1]),
               meal_period \in {_get_hall_period_for_request(_load_menu_data(menuFile),
                                    data.hall_name, Some(data.university), nowMin, defaultPeriod)} :
              \E row \in {[device_id |-> data.device_id, hall_name |-> data.hall_name,
                           university |-> RowUniversity(data.university),
                           meal_period |-> meal_period, rating |-> rating, date |-> today]} :
                  /\ posts < MaxPosts
                  /\ posts' = posts + 1
                  /\ ratings' = submit_rating(ratings, row)
                  /\ lastReq' = [endpoint |-> "post_rating", code |-> 200, request |-> data,
                                 meal_period |-> meal_period, rating |-> rating,
                                 \* history: the rating this device had under the key before
                                 replaced |-> get_user_rating(ratings, row.device_id,
                                                 row.hall_name, row.university,
                                                 row.meal_period, row.date)]
    /\ UNCHANGED <<menuFile, nowMin, today, defaultPeriod>>
    /\ UNCHANGED <<resolverVars, refreshVars, normVars>>

\* the response of GET /api/ratings/user; an absent or empty parameter is None
UserRatingResponse(device_id, hall_name, university) ==
    IF device_id = None \/ hall_name = None \/ university = None
       \/ device_id = Some("") \/ hall_name = Some("") \/ university = Some(<<>>)
    THEN [code |-> 400, error |-> "Missing required parameters"]
    ELSE LET meal_period == UserLookupPeriod(_load_menu_data(menuFile), hall_name[1], university,
                                             nowMin, defaultPeriod)
             rating == get_user_rating(ratings, device_id[1], hall_name[1],
                                       Lower(university[1]), meal_period, today)
         IN  IF rating # None
             THEN [code |-> 200, has_rated |-> TRUE, rating |-> rating[1], meal_period |-> meal_period]
             ELSE [code |-> 200, has_rated |-> FALSE, meal_period |-> meal_period]

\* GET /api/ratings/user
get_user_rating_endpoint(device_id, hall_name, university) ==
    /\ lastReq' = [endpoint |-> "get_user_rating",
                   request |-> [device_id |-> device_id, hall_name |-> hall_name,
                                university |-> university],
                   response |-> UserRatingResponse(device_id, hall_name, university)]
    /\ UNCHANGED <<menuFile, nowMin, today, defaultPeriod, ratings, posts>>
    /\ UNCHANGED <<resolverVars, refreshVars, normVars>>

-----------------------------------------------------------------------------
(* Inputs of the rating service *)

\* "H:MM AM" / "H:MM PM" as the scrapers write it
Num2(n) == <<DigitChars[(n \div 10) + 1], DigitChars[(n % 10) + 1]>>
Clock(h, m, ampm) ==
    (IF h >= 10 THEN Num2(h) ELSE <<DigitChars[h + 1]>>) \o <<":">> \o Num2(m) \o <<" ">> \o ampm
AM == <<"A","M">>
PM == <<"P","M">>
Hyphen == <<" ","-"," ">>
To == <<" ","t","o"," ">>

HallX == [name |-> "X", source |-> columbia, status |-> "open",
          meals |-> << [meal_type |-> <<"B","r","e","a","k","f","a","s","t">>,
                        time |-> Clock(7, 0, AM) \o Hyphen \o Clock(10, 30, AM)],
                       [meal_type |-> <<"L","a","t","e"," ","N","i","g","h","t">>,
                        time |-> Clock(10, 0, PM) \o Hyphen \o Clock(1, 0, AM)] >>]
HallY == [name |-> "Y", source |-> cornell, status |-> "open",
          meals |-> << [meal_type |-> <<"B","r","u","n","c","h">>,
                        time |-> <<"C","l","o","s","e","d">>],
                       [meal_type |-> <<"L","u","n","c","h">>,
                        time |-> Clock(11, 0, AM) \o To \o Clock(2, 30, PM)] >>]
\* a hall in the legacy schema: no meals field
HallXLegacy == [name |-> "X", source |-> barnard, status |-> "open",
                meal_period |-> <<"l","u","n","c","h">>]

Menu == <<HallX, HallY, HallXLegacy>>

\* minutes of day the clock visits, in order: 7:30, 23:30
TimePoints == <<450, 1410>>
\* values of the generic get_current_meal_period()
GenericPeriods == {lunch, late_night}

Columbia == <<"C","o","l","u","m","b","i","a">>
\* rating values of invalid requests: -1, 10.05, "abc"
InvalidRatings == { [num |-> 0 - 100], [num |-> 1005], [str |-> <<"a","b","c">>] }

FullRequest(d, h, u, r) == [device_id |-> d, hall_name |-> h, university |-> u, rating |-> r]
\* a request without the field f
Without(data, f) == [k \in (DOMAIN data) \ {f} |-> data[k]]

\* the valid requests: 7.46 and, with the university capitalised, the string "10" from
\* one device for hall X; the string "10" from another device for a hall that columbia
\* does not have
ValidRequests ==
    { FullRequest("d1", "X", columbia, [num |-> 746]),
      FullRequest("d1", "X", Columbia, [str |-> <<"1","0">>]),
      FullRequest("d2", "Y", columbia, [str |-> <<"1","0">>]) }

PostRequests ==
    ValidRequests
    \cup {FullRequest("d1", "X", columbia, r) : r \in InvalidRatings}
    \cup {Without(FullRequest("d1", "X", columbia, [num |-> 800]), f) : f \in {"rating", "university"}}

UserQueryArgs ==
    { <<Some("d1"), Some("X"), Some(columbia)>>, <<None, Some("X"), Some(columbia)>> }

\* the clock moves to the next instant; after the last instant of a day the date changes
Tick ==
    /\ \E i \in 1..Len(TimePoints) :
         /\ TimePoints[i] = nowMin
         /\ IF i < Len(TimePoints)
            THEN nowMin' = TimePoints[i + 1] /\ today' = today
            ELSE today < MaxDay /\ nowMin' = TimePoints[1] /\ today' = today + 1
    /\ defaultPeriod' \in GenericPeriods
    /\ lastReq' = NoRequest
    /\ UNCHANGED <<menuFile, ratings, posts>>
    /\ UNCHANGED <<resolverVars, refreshVars, normVars>>

PostRating == \E data \in PostRequests : post_rating(data)
GetUserRating == \E q \in UserQueryArgs : get_user_rating_endpoint(q[1], q[2], q[3])

\* the rating service with the menu document in place; the other parts are not running
InitRatings ==
    /\ menuFile = Some(Menu)
    /\ nowMin = TimePoints[1]
    /\ today = 1
    /\ defaultPeriod \in GenericPeriods
    /\ ratings = {}
    /\ lastReq = NoRequest
    /\ posts = 0
    /\ resHall = <<>>
    /\ resMinute = 0
    /\ resDefault = unknown
    /\ resOut = None
    /\ callIn = NoCall
    /\ callOut = None
    /\ autoRefresh = FALSE
    /\ pc = <<>>
    /\ jobScheduled = FALSE
    /\ refreshFlag = FALSE
    /\ result1 = <<>>
    /\ menuData = <<>>
    /\ days = 0
    /\ normIn = <<>>
    /\ normOut = None
    /\ normTwice = None
    /\ normClock = 0

NextRatings == PostRating \/ GetUserRating \/ Tick
SpecRatings == InitRatings /\ [][NextRatings]_vars

-----------------------------------------------------------------------------
(* The resolver as a function of a hall document and the minute of day *)

EnDash == <<" ","en"," ">>
Blocks ==
    { [meal_type |-> <<"B","r","e","a","k","f","a","s","t">>,
       time |-> Clock(7, 0, AM) \o Hyphen \o Clock(10, 30, AM)],
      [meal_type |-> <<"L","a","t","e"," ","N","i","g","h","t">>,
       time |-> Clock(10, 0, PM) \o Hyphen \o Clock(1, 0, AM)],
      [meal_type |-> <<"B","r","u","n","c","h">>, time |-> <<"C","l","o","s","e","d">>],
      [meal_type |-> <<"A","l","l"," ","D","a","y">>,
       time |-> Clock(7, 0, AM) \o To \o Clock(11, 0, PM)],
      [time |-> Clock(12, 0, PM) \o EnDash \o Clock(2, 0, PM)],
      [meal_type |-> <<"D","i","n","n","e","r">>,
       time |-> Clock(5, 0, PM) \o <<"en">> \o Clock(9, 0, PM)],
      [meal_type |-> <<" "," ">>, time |-> Clock(12, 0, AM) \o Hyphen \o Clock(12, 30, AM)],
      [meal_type |-> <<"L","u","n","c","h">>] }

RECURSIVE SeqsUpTo(_, _)
SeqsUpTo(S, n) ==
    IF n = 0 THEN {<<>>}
    ELSE LET shorter == SeqsUpTo(S, n - 1)
         IN  shorter \cup {Append(q, x) : q \in shorter, x \in S}

ResolverHalls ==
    {[name |-> "X", source |-> columbia, meals |-> ms] : ms \in SeqsUpTo(Blocks, MaxBlocks)}
    \cup {HallXLegacy}

\* 0:15, 7:30, 10:30, 13:30, 23:30
ResolverMinutes == {15, 450, 630, 810, 1410}

Resolve ==
    /\ resOut = None
    /\ resOut' = Some(_get_hall_current_period(resHall, resMinute, resDefault))
    /\ UNCHANGED <<resHall, resMinute, resDefault, callIn, callOut>>
    /\ UNCHANGED <<ratingVars, refreshVars, normVars>>

\* a hall document, a minute of day and a default period before the call of the resolver
InitResolver ==
    /\ menuFile = None
    /\ nowMin = TimePoints[1]
    /\ today = 1
    /\ defaultPeriod = unknown
    /\ ratings = {}
    /\ lastReq = NoRequest
    /\ posts = 0
    /\ resHall \in ResolverHalls
    /\ resMinute \in ResolverMinutes
    /\ resDefault \in GenericPeriods
    /\ resOut = None
    /\ callIn = NoCall
    /\ callOut = None
    /\ autoRefresh = FALSE
    /\ pc = <<>>
    /\ jobScheduled = FALSE
    /\ refreshFlag = FALSE
    /\ result1 = <<>>
    /\ menuData = <<>>
    /\ days = 0
    /\ normIn = <<>>
    /\ normOut = None
    /\ normTwice = None
    /\ normClock = 0

NextResolver == Resolve
SpecResolver == InitResolver /\ [][NextResolver]_vars

-----------------------------------------------------------------------------
(* The helper functions of server.py called on their own *)

\* the call _is_time_in_range(current, start, end) of the call in callIn
RangeResult(call) == _is_time_in_range(call.current, call.start, call.end)

\* minutes of day: 0:00, 6:00, 7:00, 22:00, 23:00, 23:59
RangeMinutes == {0, 360, 420, 1320, 1380, 1439}

RangeCalls ==
    {[fn |-> "_is_time_in_range", current |-> c, start |-> s, end |-> e] :
        c \in RangeMinutes, s \in RangeMinutes, e \in RangeMinutes}

IsTimeInRange ==
    /\ callOut = None
    /\ callIn.fn = "_is_time_in_range"
    /\ callOut' = Some(RangeResult(callIn))
    /\ UNCHANGED <<callIn, resHall, resMinute, resDefault, resOut>>
    /\ UNCHANGED <<ratingVars, refreshVars, normVars>>

\* the string handed to _parse_time_range: two sides joined by a separator
RangeString(call) == call.a \o call.sep \o call.b

\* sides that are times of day: 7:00 AM, 10:30 PM, 12:00 am
ValidSides == {Clock(7, 0, AM), Clock(10, 30, PM), Clock(12, 0, <<"a","m">>)}
\* sides that are not: "noon" and the empty string
InvalidSides == {<<"n","o","o","n">>, <<>>}

EmDash == <<" ","em"," ">>
\* " - ", " to ", the en dash and the em dash, each dash with and without spaces around it
RangeSeparators == {Hyphen, To, EnDash, <<"en">>, EmDash, <<"em">>}

ParseCalls ==
    {[fn |-> "_parse_time_range", a |-> a, sep |-> sep, b |-> b] :
        a \in ValidSides \cup InvalidSides,
        sep \in RangeSeparators \cup {<<" ">>},
        b \in ValidSides \cup InvalidSides}

ParseTimeRange ==
    /\ callOut = None
    /\ callIn.fn = "_parse_time_range"
    /\ callOut' = Some(_parse_time_range(RangeString(callIn)))
    /\ UNCHANGED <<callIn, resHall, resMinute, resDefault, resOut>>
    /\ UNCHANGED <<ratingVars, refreshVars, normVars>>

\* the loop of get_averages that selects the halls of the menu document: university is the
\* query parameter, None when absent, lower-cased when present
AveragesFilter(menu_data, university) ==
    LET uni == IF university = None \/ university = Some(<<>>) THEN None
               ELSE Some(Lower(university[1]))
        Keep(hall) ==
            IF uni = None THEN TRUE
            ELSE IF uni[1] = columbia THEN SourceTag(hall) \in {columbia, barnard}
            ELSE SourceTag(hall) = uni[1]
    IN  SelectSeq(menu_data, Keep)

\* hall X under each source tag, and tagged by the university field of the legacy schema
AliasHalls ==
    {[name |-> "X", source |-> src, status |-> "open"] : src \in {columbia, barnard, cornell}}
    \cup {[name |-> "X", university |-> <<"B","a","r","n","a","r","d">>, status |-> "open"]}

\* menu documents of one hall, and one of a cornell hall followed by a barnard hall
AliasDocuments ==
    {<<hall>> : hall \in AliasHalls}
    \cup {<<[name |-> "X", source |-> cornell, status |-> "open"],
            [name |-> "X", source |-> barnard, status |-> "open"]>>}

\* the university of a request: absent, or a string
AliasUniversities == {None, Some(columbia), Some(Columbia), Some(barnard), Some(cornell)}

FindCalls ==
    {[fn |-> "_find_hall_entry", data |-> data, hall_name |-> hall_name, university |-> u] :
        data \in AliasDocuments, hall_name \in {"X", "Z", ""}, u \in AliasUniversities}

AveragesCalls ==
    {[fn |-> "get_averages", data |-> data, university |-> u] :
        data \in AliasDocuments, u \in AliasUniversities}

FindHallEntry ==
    /\ callOut = None
    /\ callIn.fn = "_find_hall_entry"
    /\ callOut' = Some(_find_hall_entry(callIn.data, callIn.hall_name, callIn.university))
    /\ UNCHANGED <<callIn, resHall, resMinute, resDefault, resOut>>
    /\ UNCHANGED <<ratingVars, refreshVars, normVars>>

FilterAverages ==
    /\ callOut = None
    /\ callIn.fn = "get_averages"
    /\ callOut' = Some(AveragesFilter(callIn.data, callIn.university))
    /\ UNCHANGED <<callIn, resHall, resMinute, resDefault, resOut>>
    /\ UNCHANGED <<ratingVars, refreshVars, normVars>>

HelperCalls == RangeCalls \cup ParseCalls \cup FindCalls \cup AveragesCalls

\* the arguments of one call of a helper function, before the call
InitHelpers ==
    /\ menuFile = None
    /\ nowMin = TimePoints[1]
    /\ today = 1
    /\ defaultPeriod = unknown
    /\ ratings = {}
    /\ lastReq = NoRequest
    /\ posts = 0
    /\ resHall = <<>>
    /\ resMinute = 0
    /\ resDefault = unknown
    /\ resOut = None
    /\ callIn \in HelperCalls
    /\ callOut = None
    /\ autoRefresh = FALSE
    /\ pc = <<>>
    /\ jobScheduled = FALSE
    /\ refreshFlag = FALSE
    /\ result1 = <<>>
    /\ menuData = <<>>
    /\ days = 0
    /\ normIn = <<>>
    /\ normOut = None
    /\ normTwice = None
    /\ normClock = 0

NextHelpers == IsTimeInRange \/ ParseTimeRange \/ FindHallEntry \/ FilterAverages
SpecHelpers == InitHelpers /\ [][NextHelpers]_vars

-----------------------------------------------------------------------------
(* Refresh orchestrator: server.py (scheduler, guard, update_menus) and
   run_all_scrapers.py (merge with fallback, save) *)

Workers == 1..MaxWorkers
Scheduler == 0
Threads == {Scheduler} \cup Workers

_get_source_tag(item) == SourceTag(item)

RECURSIVE _filter_by_source(_, _)
_filter_by_source(data, source) ==
    IF data = <<>> THEN <<>>
    ELSE (IF _get_source_tag(Head(data)) = source THEN <<Head(data)>> ELSE <<>>)
         \o _filter_by_source(Tail(data), source)

_is_scrape_successful(results, source) ==
    LET src_results == _filter_by_source(results, source)
    IN  /\ results # <<>>
        /\ src_results # <<>>
        /\ \E i \in 1..Len(src_results) : src_results[i].status # "error"

\* all_results of run_all_scrapers: the scraper results, each replaced by the university's
\* slice of existing_data when the scrape was not successful and that slice is not empty
Combine(existing_data, columbia_results, cornell_results) ==
    LET fallback_columbia == _filter_by_source(existing_data, columbia)
        fallback_cornell == _filter_by_source(existing_data, cornell)
        col == IF ~_is_scrape_successful(columbia_results, columbia) /\ fallback_columbia # <<>>
               THEN fallback_columbia ELSE columbia_results
        cor == IF ~_is_scrape_successful(cornell_results, cornell) /\ fallback_cornell # <<>>
               THEN fallback_cornell ELSE cornell_results
    IN  col \o cor

ErrorCount(all_results) == Cardinality({i \in 1..Len(all_results) : all_results[i].status = "error"})

\* the save is skipped at half or more errors
SkipSaveAtHalf(all_results) ==
    all_results # <<>> /\ 2 * ErrorCount(all_results) >= Len(all_results)

\* all_results and error_count > len(all_results) / 2
SkipSave(all_results) ==
    all_results # <<>> /\ 2 * ErrorCount(all_results) > Len(all_results)

\* menu_data.json after run_all_scrapers
Saved(existing_data, all_results) ==
    IF SkipSave(all_results) THEN existing_data ELSE all_results

Entry(n, src, st) == [name |-> n, source |-> src, status |-> st]
\* what scrape_columbia() leaves in columbia_results; the empty list also stands for a
\* scraper that raised
ColumbiaOutcomes ==
    { <<>>,
      <<Entry("John Jay", columbia, "open")>>,
      <<Entry("John Jay", columbia, "error")>>,
      <<Entry("Hewitt", barnard, "open")>> }
\* what scrape_cornell() leaves in cornell_results
CornellOutcomes ==
    { <<>>,
      <<Entry("Okenshields", cornell, "open")>>,
      <<Entry("Okenshields", cornell, "error"), Entry("Morrison", cornell, "error")>> }

NoResult == [returncode |-> "none"]

Running(t) == pc[t] \in {"step1", "check1", "step2"}

\* _run_update_menus_guarded without its finally clause: the thread ends when update_menus
\* returns
AfterUpdateNoFinally(t) == IF t = Scheduler THEN "loop" ELSE "idle"

\* where a thread is after update_menus returns
AfterUpdate(t) == IF t = Scheduler THEN "loop" ELSE "finally"

\* trigger_refresh_async: a new thread stands before _run_update_menus_guarded
Spawn(pcs) ==
    LET w == CHOOSE i \in Workers : pcs[i] = "idle" /\ \A j \in Workers : pcs[j] = "idle" => i <= j
    IN  [pcs EXCEPT ![w] = "spawned"]
CanSpawn == \E i \in Workers : pc[i] = "idle"

\* run_scheduler up to the loop
SchedulerStart ==
    /\ pc[Scheduler] = "start"
    /\ autoRefresh => CanSpawn
    /\ IF autoRefresh
       THEN /\ pc' = [Spawn(pc) EXCEPT ![Scheduler] = "loop"]
            /\ jobScheduled' = TRUE
       ELSE /\ pc' = [pc EXCEPT ![Scheduler] = "loop"]
            /\ jobScheduled' = jobScheduled
    /\ UNCHANGED <<autoRefresh, refreshFlag, result1, menuData, days, menuFile>>
    /\ UNCHANGED <<nowMin, today, defaultPeriod, ratings, lastReq, posts, resolverVars, normVars>>

\* schedule.run_pending() at 03:00: the job, update_menus, runs in the scheduler thread
Scheduler0300 ==
    /\ pc[Scheduler] = "loop"
    /\ days < MaxDays
    /\ days' = days + 1
    /\ pc' = [pc EXCEPT ![Scheduler] = IF jobScheduled THEN "step1" ELSE "loop"]
    /\ UNCHANGED <<autoRefresh, jobScheduled, refreshFlag, result1, menuData, menuFile>>
    /\ UNCHANGED <<nowMin, today, defaultPeriod, ratings, lastReq, posts, resolverVars, normVars>>

\* GET /api/refresh
refresh_menus ==
    /\ CanSpawn
    /\ pc' = Spawn(pc)
    /\ UNCHANGED <<autoRefresh, jobScheduled, refreshFlag, result1, menuData, days, menuFile>>
    /\ UNCHANGED <<nowMin, today, defaultPeriod, ratings, lastReq, posts, resolverVars, normVars>>

\* GET /api/dining-halls while MENU_FILE does not exist
get_dining_halls_no_file ==
    /\ menuFile = None
    /\ CanSpawn
    /\ pc' = Spawn(pc)
    /\ UNCHANGED <<autoRefresh, jobScheduled, refreshFlag, result1, menuData, days, menuFile>>
    /\ UNCHANGED <<nowMin, today, defaultPeriod, ratings, lastReq, posts, resolverVars, normVars>>

\* _run_update_menus_guarded up to the call of update_menus
GuardedEnter(t) ==
    /\ t \in Workers
    /\ pc[t] = "spawned"
    /\ IF refreshFlag
       THEN pc' = [pc EXCEPT ![t] = "idle"] /\ refreshFlag' = refreshFlag
       ELSE pc' = [pc EXCEPT ![t] = "step1"] /\ refreshFlag' = TRUE
    /\ UNCHANGED <<autoRefresh, jobScheduled, result1, menuData, days, menuFile>>
    /\ UNCHANGED <<nowMin, today, defaultPeriod, ratings, lastReq, posts, resolverVars, normVars>>

\* update_menus, step 1: the subprocess run_all_scrapers.py runs to its end
RunScrapers(t) ==
    /\ pc[t] = "step1"
    /\ \E columbia_results \in ColumbiaOutcomes, cornell_results \in CornellOutcomes :
         LET all_results == Combine(menuData, columbia_results, cornell_results)
         IN  /\ menuData' = Saved(menuData, all_results)
             /\ result1' = [result1 EXCEPT ![t] =
                              [returncode |-> 0, columbia |-> columbia_results,
                               cornell |-> cornell_results, all_results |-> all_results]]
    /\ pc' = [pc EXCEPT ![t] = "check1"]
    /\ UNCHANGED <<autoRefresh, jobScheduled, refreshFlag, days, menuFile>>
    /\ UNCHANGED <<nowMin, today, defaultPeriod, ratings, lastReq, posts, resolverVars, normVars>>

\* update_menus, step 1: the subprocess exits with an error code before it scrapes
\* (ImportError), or subprocess.run raises (timeout) and update_menus catches it
ScrapersFail(t) ==
    /\ pc[t] = "step1"
    /\ \/ /\ result1' = [result1 EXCEPT ![t] = [returncode |-> 1]]
          /\ pc' = [pc EXCEPT ![t] = "check1"]
       \/ /\ result1' = result1
          /\ pc' = [pc EXCEPT ![t] = AfterUpdate(t)]
    /\ UNCHANGED <<autoRefresh, jobScheduled, refreshFlag, menuData, days, menuFile>>
    /\ UNCHANGED <<nowMin, today, defaultPeriod, ratings, lastReq, posts, resolverVars, normVars>>

\* update_menus: if result1.returncode == 0 ... else return
CheckScrapers(t) ==
    /\ pc[t] = "check1"
    /\ pc' = [pc EXCEPT ![t] = IF result1[t].returncode = 0 THEN "step2" ELSE AfterUpdate(t)]
    /\ result1' = [result1 EXCEPT ![t] = NoResult]
    /\ UNCHANGED <<autoRefresh, jobScheduled, refreshFlag, menuData, days, menuFile>>
    /\ UNCHANGED <<nowMin, today, defaultPeriod, ratings, lastReq, posts, resolverVars, normVars>>

\* nutrition_api.py: MENU_FILE is written from menu_data.json
Enriched(data) == Some(data)

\* update_menus, step 2: the subprocess nutrition_api.py succeeds, or fails or times out
RunNutrition(t) ==
    /\ pc[t] = "step2"
    /\ menuFile' \in {Enriched(menuData), menuFile}
    /\ pc' = [pc EXCEPT ![t] = AfterUpdate(t)]
    /\ UNCHANGED <<autoRefresh, jobScheduled, refreshFlag, result1, menuData, days>>
    /\ UNCHANGED <<nowMin, today, defaultPeriod, ratings, lastReq, posts, resolverVars, normVars>>

\* _run_update_menus_guarded: finally: _refresh_in_progress.clear()
GuardedExit(t) ==
    /\ t \in Workers
    /\ pc[t] = "finally"
    /\ refreshFlag' = FALSE
    /\ pc' = [pc EXCEPT ![t] = "idle"]
    /\ UNCHANGED <<autoRefresh, jobScheduled, result1, menuData, days, menuFile>>
    /\ UNCHANGED <<nowMin, today, defaultPeriod, ratings, lastReq, posts, resolverVars, normVars>>

\* the process at import of server.py: no menu file, the scheduler thread about to run
InitRefresh ==
    /\ menuFile = None
    /\ nowMin = TimePoints[1]
    /\ today = 1
    /\ defaultPeriod = unknown
    /\ ratings = {}
    /\ lastReq = NoRequest
    /\ posts = 0
    /\ resHall = <<>>
    /\ resMinute = 0
    /\ resDefault = unknown
    /\ resOut = None
    /\ callIn = NoCall
    /\ callOut = None
    /\ autoRefresh \in BOOLEAN
    /\ pc = [t \in Threads |-> IF t = Scheduler THEN "start" ELSE "idle"]
    /\ jobScheduled = FALSE
    /\ refreshFlag = FALSE
    /\ result1 = [t \in Threads |-> NoResult]
    /\ menuData = <<>>
    /\ days = 0
    /\ normIn = <<>>
    /\ normOut = None
    /\ normTwice = None
    /\ normClock = 0

NextRefresh ==
    \/ SchedulerStart
    \/ Scheduler0300
    \/ refresh_menus
    \/ get_dining_halls_no_file
    \/ \E t \in Threads : GuardedEnter(t)
    \/ \E t \in Threads : RunScrapers(t)
    \/ \E t \in Threads : ScrapersFail(t)
    \/ \E t \in Threads : CheckScrapers(t)
    \/ \E t \in Threads : RunNutrition(t)
    \/ \E t \in Threads : GuardedExit(t)

SpecRefresh == InitRefresh /\ [][NextRefresh]_vars

-----------------------------------------------------------------------------
(* Legacy schema normalizer, server.py *)

EmptyDict == [k \in {} |-> k]

\* datetime.isoformat()
IsoFormat(instant) == [iso |-> instant]

\* one element of raw_items: a string is [str |-> name], anything else is the object itself.
\* None when the item has no name and is skipped.
LegacyItem(item) ==
    LET name == IF "str" \in DOMAIN item THEN item.str ELSE GetOr(item, "name", "")
        data == IF "str" \in DOMAIN item THEN EmptyDict ELSE item
    IN  IF name = "" THEN None
        ELSE Some([name |-> name,
                   description |-> None,
                   allergens |-> <<>>,
                   dietary_prefs |-> <<>>,
                   calories |-> Get(data, "calories"),
                   protein |-> IF "protein" \in DOMAIN data THEN Some(data.protein)
                               ELSE Get(data, "protein_g"),
                   carbs |-> IF "carbs" \in DOMAIN data THEN Some(data.carbs)
                             ELSE Get(data, "carbs_g"),
                   fat |-> IF "fat" \in DOMAIN data THEN Some(data.fat) ELSE Get(data, "fat_g"),
                   estimated |-> GetOr(data, "estimated", FALSE)])

RECURSIVE LegacyItems(_)
LegacyItems(raw_items) ==
    IF raw_items = <<>> THEN <<>>
    ELSE LegacyItem(Head(raw_items)) \o LegacyItems(Tail(raw_items))

\* the conversion of _normalize_legacy_hall, below its test for 'meals'
ConvertLegacyHall(hall, instant) ==
    LET raw_items == IF GetOr(hall, "food_items_with_nutrition", <<>>) # <<>>
                     THEN hall.food_items_with_nutrition
                     ELSE GetOr(hall, "food_items", <<>>)
        items == LegacyItems(raw_items)
        meal_period == GetOr(hall, "meal_period", <<"m","e","a","l">>)
        meals == << [meal_type |-> Title(meal_period),
                     time |-> GetOr(hall, "hours", GetOr(hall, "operating_hours", <<>>)),
                     stations |-> << [station |-> "Menu", items |-> items] >>] >>
        status == IF items # <<>> THEN "open" ELSE "open_no_menu"
    IN  [name |-> GetOr(hall, "name", "Dining Hall"),
         meals |-> meals,
         status |-> GetOr(hall, "status", status),
         source |-> GetOr(hall, "source", <<"l","e","g","a","c","y">>),
         scraped_at |-> GetOr(hall, "scraped_at", IsoFormat(instant)),
         operating_hours |-> IF "hours" \in DOMAIN hall THEN Some(hall.hours)
                             ELSE Get(hall, "operating_hours"),
         is_open |-> Get(hall, "is_open")]

\* _normalize_legacy_hall without the passthrough of a document that has meals
_normalize_legacy_hall_always_converts(hall, instant) == ConvertLegacyHall(hall, instant)

\* instant is datetime.now() at the call
_normalize_legacy_hall(hall, instant) ==
    IF "meals" \in DOMAIN hall THEN hall ELSE ConvertLegacyHall(hall, instant)

\* optional parts of a legacy document; EmptyDict is the part left out
ItemParts ==
    { EmptyDict,
      [food_items |-> << [str |-> "Pizza"], [str |-> ""] >>],
      [food_items_with_nutrition |-> << [name |-> "Pizza", calories |-> 285, protein_g |-> 12,
                                         estimated |-> TRUE],
                                        [calories |-> 100] >>,
       food_items |-> << [str |-> "Soup"] >>],
      [food_items_with_nutrition |-> <<>>, food_items |-> << [str |-> "Soup"] >>] }
PeriodParts == { EmptyDict, [meal_period |-> <<"l","a","t","e"," ","n","i","g","h","t">>] }
HoursParts ==
    { EmptyDict,
      [hours |-> Clock(7, 0, AM) \o Hyphen \o Clock(8, 0, PM)],
      [operating_hours |-> Clock(11, 0, AM) \o To \o Clock(2, 30, PM)] }
StampParts == { EmptyDict, [scraped_at |-> IsoFormat(0)] }
StatusParts == { EmptyDict, [status |-> "closed", source |-> columbia, is_open |-> FALSE] }

LegacyHalls ==
    { [name |-> "John Jay"] @@ i @@ p @@ h @@ st @@ ss :
        i \in ItemParts, p \in PeriodParts, h \in HoursParts, st \in StampParts, ss \in StatusParts }
\* documents that have a meals field: halls of the current schema, one of them with
\* legacy fields next to meals
CanonicalHalls ==
    { HallX, HallY,
      [name |-> "Odd", meals |-> <<>>, food_items |-> << [str |-> "Pizza"] >>] }

\* the first call: normalize(x)
NormalizeOnce ==
    /\ normOut = None
    /\ normOut' = Some(_normalize_legacy_hall(normIn, normClock))
    /\ normClock' = normClock + 1
    /\ UNCHANGED <<normIn, normTwice>>
    /\ UNCHANGED <<ratingVars, resolverVars, refreshVars>>

\* the second call, at a later instant: normalize(normalize(x))
NormalizeAgain ==
    /\ normOut # None
    /\ normTwice = None
    /\ normTwice' = Some(_normalize_legacy_hall(normOut[1], normClock))
    /\ normClock' = normClock + 1
    /\ UNCHANGED <<normIn, normOut>>
    /\ UNCHANGED <<ratingVars, resolverVars, refreshVars>>

\* a hall document before the first call of the normalizer
InitNormalizer ==
    /\ menuFile = None
    /\ nowMin = TimePoints[1]
    /\ today = 1
    /\ defaultPeriod = unknown
    /\ ratings = {}
    /\ lastReq = NoRequest
    /\ posts = 0
    /\ resHall = <<>>
    /\ resMinute = 0
    /\ resDefault = unknown
    /\ resOut = None
    /\ callIn = NoCall
    /\ callOut = None
    /\ autoRefresh = FALSE
    /\ pc = <<>>
    /\ jobScheduled = FALSE
    /\ refreshFlag = FALSE
    /\ result1 = <<>>
    /\ menuData = <<>>
    /\ days = 0
    /\ normIn \in LegacyHalls \cup CanonicalHalls
    /\ normOut = None
    /\ normTwice = None
    /\ normClock = 1

NextNormalizer == NormalizeOnce \/ NormalizeAgain
SpecNormalizer == InitNormalizer /\ [][NextNormalizer]_vars

-----------------------------------------------------------------------------
(* Properties of the rating service, checked under SpecRatings *)

PostAccepted(req) == req.endpoint = "post_rating" /\ req.code = 200

\* C2: after POST /api/ratings succeeds for a device, hall and university, GET
\* /api/ratings/user for the same device, hall and university at the same instant and date
\* reports has_rated = true with the stored value.
C2_UserLookupSeesSubmission ==
    [][ ( /\ PostAccepted(lastReq)
          /\ lastReq'.endpoint = "get_user_rating"
          /\ lastReq'.request = [device_id |-> Some(lastReq.request.device_id),
                                 hall_name |-> Some(lastReq.request.hall_name),
                                 university |-> Some(lastReq.request.university)] )
        => ( /\ lastReq'.response.code = 200
             /\ lastReq'.response.has_rated
             /\ lastReq'.response.rating = lastReq.rating ) ]_vars

\* the key of a row with the university lower-cased
LoweredKey(r) == <<r.device_id, r.hall_name, Lower(r.university), r.meal_period, r.date>>

\* C3: the store holds at most one rating per (device_id, hall_name, lowercased university,
\* resolved meal_period, date); an accepted submission leaves exactly one row for its key,
\* holding the submitted (rounded) value, adds at most that one row and changes no row
\* with a different key.
C3_OneRatingPerKey ==
    [][ /\ \A r1, r2 \in ratings' : LoweredKey(r1) = LoweredKey(r2) => r1 = r2
        /\ PostAccepted(lastReq') /\ posts' = posts + 1 =>
           LET req == lastReq'.request
               key == <<req.device_id, req.hall_name, Lower(req.university),
                        lastReq'.meal_period, today>>
               mine == {r \in ratings' : LoweredKey(r) = key}
           IN  /\ Cardinality(mine) = 1
               /\ \A r \in mine : r.rating = lastReq'.rating
               /\ {r \in ratings' : LoweredKey(r) # key} = {r \in ratings : LoweredKey(r) # key}
               /\ Cardinality(ratings') =
                     Cardinality(ratings) + (IF \E r \in ratings : LoweredKey(r) = key THEN 0 ELSE 1)
         ]_vars

\* a resubmission with another value has replaced the only row of the store
C3_Witness ==
    /\ PostAccepted(lastReq)
    /\ lastReq.replaced # None
    /\ lastReq.replaced[1] # lastReq.rating
    /\ Cardinality(ratings) = 1

\* the numeric value, in hundredths, of the rating values the requests carry; None for a
\* value that is not a number
SubmittedValue(x) ==
    IF "num" \in DOMAIN x THEN Some(x.num)
    ELSE IF x = [str |-> <<"1","0">>] THEN Some(1000)
    ELSE None

\* C4: POST /api/ratings changes the store only when the request has all four fields and a
\* numeric rating with 0 <= rating <= 10; any other request gets a validation error and
\* leaves the store unchanged; a stored value is the submitted value rounded to one
\* decimal and lies in [0,10].
C4_OnlyValidRatingsStored ==
    [][ lastReq'.endpoint = "post_rating" /\ (lastReq' # lastReq \/ posts' # posts) =>
        LET req == lastReq'.request
            valid == /\ RequiredFields \subseteq DOMAIN req
                     /\ SubmittedValue(req.rating) # None
                     /\ 0 <= SubmittedValue(req.rating)[1]
                     /\ SubmittedValue(req.rating)[1] <= 1000
        IN  /\ ~valid => (ratings' = ratings /\ lastReq'.code = 400)
            /\ valid => lastReq'.code = 200
            /\ \A r \in ratings' \ ratings :
                 /\ valid
                 /\ r.rating % 10 = 0
                 /\ 0 <= r.rating /\ r.rating <= 1000
                 /\ r.rating - SubmittedValue(req.rating)[1] \in (0 - 5)..5
      ]_vars

\* 10.05 is rejected while the store holds 7.5, stored for a submitted 7.46
C4_Witness ==
    /\ lastReq.endpoint = "post_rating"
    /\ lastReq.code = 400
    /\ "rating" \in DOMAIN lastReq.request
    /\ lastReq.request.rating = [num |-> 1005]
    /\ \E r \in ratings : r.rating = 750

-----------------------------------------------------------------------------
(* Properties of the resolver, checked under SpecResolver *)

HasBlocks(hall) == "meals" \in DOMAIN hall /\ hall.meals # <<>>

\* the blocks of meals whose time range parses and contains minute m
MatchingBlocks(meals, m) ==
    {i \in 1..Len(meals) :
        LET range == _parse_time_range(GetOr(meals[i], "time", <<>>))
        IN  range # None /\ _is_time_in_range(m, range[1][1], range[1][2])}

\* C5: for a hall with at least one meal block the resolver returns the normalized meal
\* type of the first block, in list order, whose time range parses and contains the
\* current minute, and the normalized meal type of the first block of the list when no
\* block's range both parses and contains the minute.
C5_FirstMatchingBlockOrFirstBlock ==
    (resOut # None /\ HasBlocks(resHall)) =>
        LET hits == MatchingBlocks(resHall.meals, resMinute)
            first == IF hits = {} THEN 1 ELSE CHOOSE i \in hits : \A j \in hits : i <= j
        IN  resOut[1] = _normalize_meal_type(Get(resHall.meals[first], "meal_type"))

\* the second block matched after the first did not, and the two blocks differ in type
C5_Witness ==
    /\ resOut # None
    /\ HasBlocks(resHall)
    /\ Len(resHall.meals) = 2
    /\ MatchingBlocks(resHall.meals, resMinute) = {2}
    /\ resOut[1] # _normalize_meal_type(Get(resHall.meals[1], "meal_type"))

SixPeriods == {breakfast, lunch, dinner, late_night, all_day, unknown}

\* C9: every meal period the resolver returns is one of breakfast, lunch, dinner,
\* late_night, all_day or unknown.
C9_OneOfSixPeriods == resOut # None => resOut[1] \in SixPeriods

\* C9 as amended: for a hall with meal blocks the resolver returns a normalized label:
\* it has no upper-case letter and no space, does not begin or end with whitespace, and
\* is late_night whenever it begins with "late"; it need not be one of the six periods.
C9_NormalizedLabel ==
    (resOut # None /\ HasBlocks(resHall)) =>
        LET p == resOut[1]
        IN  /\ \A i \in 1..Len(p) : p[i] \notin UpperSet /\ p[i] # " "
            /\ StartsWith(p, late) => p = late_night

\* the resolver returned "brunch"
C9_Witness == resOut = Some(<<"b","r","u","n","c","h">>)

-----------------------------------------------------------------------------
(* Properties of the refresh orchestrator, checked under SpecRefresh *)

\* C1: at every moment at most one run of update_menus is executing, whichever of its
\* starters (process start, GET /api/refresh, GET /api/dining-halls without a document,
\* the daily 03:00 job) started it.
C1_AtMostOneRun == Cardinality({t \in Threads : Running(t)}) <= 1

\* thread t has just finished a run of run_all_scrapers.py that reached the save decision
ScraperRunEnds(t) == pc[t] = "step1" /\ pc'[t] = "check1" /\ result1'[t].returncode = 0

\* C6: when more than half of the hall entries of the combined result are in error status
\* the refresh leaves menu_data.json exactly as it was; when at most half are, exactly
\* half included, the combined result replaces the stored document wholesale.
C6_MajorityErrorDiscardsRefresh ==
    [][ \A t \in Threads : ScraperRunEnds(t) =>
          LET combined == result1'[t].all_results
              errors == Cardinality({i \in 1..Len(combined) : combined[i].status = "error"})
          IN  IF 2 * errors > Len(combined)
              THEN menuData' = menuData
              ELSE menuData' = combined
      ]_vars

\* a run was discarded for two errors out of three entries and the stored document, which
\* is not empty, is not the combined result
C6_Witness ==
    \E t \in Threads :
        /\ pc[t] = "check1"
        /\ result1[t].returncode = 0
        /\ Len(result1[t].all_results) = 3
        /\ Cardinality({i \in 1..3 : result1[t].all_results[i].status = "error"}) = 2
        /\ menuData # <<>>
        /\ menuData # result1[t].all_results

\* a scraper failed: it raised or returned nothing, or returned only error entries
ScraperFailed(results) == \A i \in 1..Len(results) : results[i].status = "error"

\* the entries of a document with a given source tag
EntriesOf(data, source) == {data[i] : i \in {j \in 1..Len(data) : SourceTag(data[j]) = source}}

\* C7: a refresh in which a university's scraper fails never truncates the previous
\* document: every entry the previous document held for the failed university is still
\* in the stored document, and a non-empty previous document is never replaced by an
\* empty one, also when both scrapers fail.  Stated for a refresh that runs alone.
C7_FailedScrapeKeepsPreviousDocument ==
    [][ \A t \in Threads : (ScraperRunEnds(t) /\ \A u \in Threads \ {t} : ~Running(u)) =>
          LET run == result1'[t]
              stored == {menuData'[i] : i \in 1..Len(menuData')}
          IN  /\ ScraperFailed(run.columbia) => EntriesOf(menuData, columbia) \subseteq stored
              /\ ScraperFailed(run.cornell) => EntriesOf(menuData, cornell) \subseteq stored
              /\ (ScraperFailed(run.columbia) \/ ScraperFailed(run.cornell)) /\ menuData # <<>>
                    => menuData' # <<>>
      ]_vars

\* C8: the daily 03:00 refresh is scheduled in every configuration and only the refresh at
\* process start depends on AUTO_REFRESH_ON_START: the scheduler registers the daily job
\* whatever the flag is, starts a refresh at start exactly when the flag is set, and a
\* refresh runs at each 03:00.
C8_DailyRefreshInEveryConfiguration ==
    /\ [][ pc[Scheduler] = "start" /\ pc'[Scheduler] = "loop" =>
             /\ jobScheduled'
             /\ (\E w \in Workers : pc[w] = "idle" /\ pc'[w] = "spawned") <=> autoRefresh ]_vars
    /\ [][ days' = days + 1 => pc'[Scheduler] = "step1" ]_vars

-----------------------------------------------------------------------------
(* Properties of the legacy normalizer, checked under SpecNormalizer *)

\* C10: the normalizer is idempotent: normalizing the result of a normalization returns
\* that result, normalizing a document that has a meals field returns the document
\* itself, and the result of normalizing a legacy document has a meals field.
C10_NormalizerIdempotent ==
    /\ normTwice # None => normTwice = normOut
    /\ (normOut # None /\ "meals" \in DOMAIN normIn) => normOut[1] = normIn
    /\ normOut # None => "meals" \in DOMAIN normOut[1]

\* a legacy document without scraped_at was normalized twice, at two instants
C10_Witness ==
    /\ normTwice # None
    /\ "meals" \notin DOMAIN normIn
    /\ "scraped_at" \notin DOMAIN normIn
    /\ normOut[1].scraped_at = IsoFormat(1)
    /\ normOut[1].meals[1].stations[1].items # <<>>

-----------------------------------------------------------------------------
(* Properties of the helper functions, checked under SpecHelpers *)

\* C11: _is_time_in_range(current, start, end) over minutes of day is start <= current < end
\* when start <= end, and (current >= start or current < end) when end < start; the end
\* minute is never inside the range, and a range with start = end contains no minute.
C11_HalfOpenRangeWithWrap ==
    (callIn.fn = "_is_time_in_range" /\ callOut # None) =>
        LET c == callIn.current
            s == callIn.start
            e == callIn.end
        IN  /\ s <= e => (callOut[1] <=> (s <= c /\ c < e))
            /\ e < s => (callOut[1] <=> (c >= s \/ c < e))
            /\ c = e => ~callOut[1]
            /\ s = e => ~callOut[1]

\* 23:00 is inside the range from 22:00 to 6:00, which wraps past midnight
C11_Witness ==
    /\ callIn = [fn |-> "_is_time_in_range", current |-> 1380, start |-> 1320, end |-> 360]
    /\ callOut = Some(TRUE)

\* C12: for two valid times of day A and B, _parse_time_range gives
\* (_parse_time_to_minutes(A), _parse_time_to_minutes(B)) for A and B joined by " - ",
\* by " to ", by an en dash or by an em dash, the dash with or without spaces around it;
\* it returns None only when no separator is present or a side is not a time of day.
C12_FourSeparatorsSamePair ==
    (callIn.fn = "_parse_time_range" /\ callOut # None) =>
        LET start == _parse_time_to_minutes(callIn.a)
            end == _parse_time_to_minutes(callIn.b)
            valid == callIn.sep \in RangeSeparators /\ start # None /\ end # None
        IN  /\ valid => callOut[1] = Some(<<start[1], end[1]>>)
            /\ callOut[1] = None => ~valid

\* a request for university uni is for the university of a hall tagged source, with
\* columbia and barnard one tag
SameUniversity(uni, source) ==
    IF uni \in {columbia, barnard} THEN source \in {columbia, barnard} ELSE source = uni

\* C13: columbia and barnard are aliases of one university tag in both directions: a
\* request with university barnard matches a hall whose source is columbia exactly as a
\* request with university columbia matches a hall whose source is barnard, in the hall
\* lookup of the rating submission and in the hall filter of the averages query.
C13_ColumbiaBarnardAliases ==
    (callOut # None /\ callIn.fn \in {"_find_hall_entry", "get_averages"}
        /\ callIn.university # None) =>
        LET uni == Lower(callIn.university[1])
            Same(hall) == SameUniversity(uni, SourceTag(hall))
            Named(hall) == hall.name = callIn.hall_name /\ Same(hall)
        IN  IF callIn.fn = "get_averages"
            THEN callOut[1] = SelectSeq(callIn.data, Same)
            ELSE callIn.hall_name # "" =>
                   callOut[1] = (IF SelectSeq(callIn.data, Named) = <<>> THEN None
                                 ELSE Some(Head(SelectSeq(callIn.data, Named))))

-----------------------------------------------------------------------------
(* Properties of the refresh flag, checked under SpecRefresh *)

\* a thread started by trigger_refresh_async is between the set and the clear of the flag
GuardedActive(pcs) == \E t \in Workers : pcs[t] \in {"step1", "check1", "step2", "finally"}

\* C14: _refresh_in_progress is set exactly while a guarded run is between its start and
\* its finally clause; however update_menus ends (complete, early return on a failed
\* step, exception) the thread passes through the finally clause, which leaves the flag
\* clear; a trigger that finds the flag clear starts a run, and a trigger that finds it
\* set ends without a run: a run starts only in the step of a trigger that finds the flag
\* clear.
C14_FlagClearedWhenRunEnds ==
    [][ /\ refreshFlag' <=> GuardedActive(pc')
        /\ \A t \in Workers :
             /\ (Running(t) /\ ~Running(t)') => pc'[t] = "finally"
             /\ (pc[t] = "finally" /\ pc'[t] # "finally") => (pc'[t] = "idle" /\ ~refreshFlag')
             /\ (pc[t] = "spawned" /\ pc'[t] # "spawned") =>
                    IF refreshFlag THEN pc'[t] = "idle" /\ refreshFlag'
                    ELSE pc'[t] = "step1" /\ refreshFlag'
             /\ (pc'[t] = "step1" /\ pc[t] # "step1") => (pc[t] = "spawned" /\ ~refreshFlag)
      ]_vars

\* with the daily job not registered every run is a guarded one: a run has written the
\* menu file and ended, and a later trigger has started a new run while another trigger
\* waits to be dropped
C14_Witness ==
    /\ ~autoRefresh
    /\ menuFile # None
    /\ refreshFlag
    /\ \E t, u \in Workers : pc[t] = "step1" /\ pc[u] = "spawned"

=============================================================================
